---- MODULE Spec2Model ----
(***************************************************************************)
(* Clock event devices: kernel/time/clockevents.c.                         *)
(*                                                                         *)
(* The module models the scaled tick <-> nanosecond conversion             *)
(* (cev_delta2ns), the mode state machine, the event programmer with its   *)
(* minimum-delta fallback, and the registry of active and released         *)
(* devices kept in two intrusive doubly linked lists.                      *)
(*                                                                         *)
(* Widths.  u64 is modelled as a word of WordBits bits, unsigned long as   *)
(* the full word (an LP64 build) and s64/ktime_t as the signed reading of  *)
(* the word; mult (u32) stays far below the word.  All arithmetic is done  *)
(* modulo 2^WordBits exactly where the C code computes in u64.             *)
(***************************************************************************)
EXTENDS Integers, Sequences, FiniteSets, TLC

(***************************************************************************)
(* Bounds of the model.                                                    *)
(***************************************************************************)
WordBits == 22

MaxShift == 1

MaxMult == 2

MidDelta == 3000

LatchSpan == 6

MathMaxShift == 2

MathMaxMult == 6

MaxNow == 2

MaxRetries == 1

MaxCalls == 5

MaxProgCalls == 3

(***************************************************************************)
(* Program constants.                                                      *)
(***************************************************************************)
NSEC_PER_SEC == 1000000000

HZ == 1000

MIN_DELTA_LIMIT == NSEC_PER_SEC \div HZ

MIN_DELTA_FLOOR == 5000

NOISE_FLOOR_NS == 1000

ETIME == 62

Word == 2 ^ WordBits

MaxWord == Word - 1

KTIME_MAX == 2 ^ (WordBits - 1) - 1

(***************************************************************************)
(* Word arithmetic.                                                        *)
(***************************************************************************)
\* (u64) x << s, for s < WordBits: the bits shifted past the word are lost.
Shl(x, s) == (x % (2 ^ (WordBits - s))) * (2 ^ s)

\* x >> s on an unsigned word.
Shr(x, s) == x \div (2 ^ s)

\* (unsigned long long) a * b, truncated to the word.
MulWord(a, b) == (a * b) % Word

\* (int64_t) x of a u64 x: the top half of the word reads as negative.
ToS64(x) == IF x >= 2 ^ (WordBits - 1) THEN x - Word ELSE x

Min(a, b) == IF a < b THEN a ELSE b

Max(a, b) == IF a > b THEN a ELSE b

(***************************************************************************)
(* cev_delta2ns: latch (device ticks) to nanoseconds.  `mult` is the       *)
(* device's multiplier after the defensive repair of a zero value.         *)
(***************************************************************************)
RepairMult(mult) == IF mult = 0 THEN 1 ELSE mult

\* clc after the upper bound sanity check of the shift.
ShiftedLatch(latch, shift) ==
    LET clc == Shl(latch, shift)
    IN  IF Shr(clc, shift) # latch THEN MaxWord ELSE clc

\* Whether the rounding term mult - 1 is added.
AddsRounding(clc, mult, shift, ismax) ==
    /\ MaxWord - clc > mult - 1
    /\ (~ismax \/ mult <= 2 ^ shift)

\* A slip that drops the rounding term for the lower bound too.
cev_delta2ns_noround(latch, mult0, shift, ismax) ==
    LET mult == RepairMult(mult0)
        clc  == ShiftedLatch(latch, shift) \div mult
    IN  IF clc > NOISE_FLOOR_NS THEN clc ELSE NOISE_FLOOR_NS

cev_delta2ns(latch, mult0, shift, ismax) ==
    LET mult == RepairMult(mult0)
        rnd  == mult - 1
        clc0 == ShiftedLatch(latch, shift)
        clc1 == IF AddsRounding(clc0, mult, shift, ismax)
                THEN clc0 + rnd ELSE clc0
        clc  == clc1 \div mult
    IN  IF clc > NOISE_FLOOR_NS THEN clc ELSE NOISE_FLOOR_NS

\* clc = ((unsigned long long) delta * dev->mult) >> dev->shift
NsToTicks(delta, mult, shift) == Shr(MulWord(delta, mult), shift)

(***************************************************************************)
(* Devices, processors and the two list heads.                             *)
(***************************************************************************)
Devs == {"A", "B", "C"}

NoDev == "none"

\* The possible processors.
Cpus == {0, 1}

\* static LIST_HEAD(clockevent_devices); static LIST_HEAD(clockevents_released);
clockevent_devices == "clockevent_devices"

clockevents_released == "clockevents_released"

Nodes == Devs \cup {clockevent_devices, clockevents_released}

Modes == {"UNUSED", "SHUTDOWN", "PERIODIC", "ONESHOT"}

Features == {"PERIODIC", "ONESHOT", "KTIME"}

VARIABLES
    dev,      \* dev[d]: the fields of struct clock_event_device d
    list,     \* list.next[n], list.prev[n]: the struct list_head of node n
    broadcast,\* the device tick_is_broadcast_device() answers for, or NoDev
    hwfloor,  \* the behaviour of each device's set_next_event callback
    adaptive, \* CONFIG_GENERIC_CLOCKEVENTS_MIN_ADJUST
    now,      \* ktime_get()
    pc,       \* "run", or how the kernel stopped: "BUG", "hung", "oops"
    prog,     \* the position of a clockevents_program_event call in flight
    last,     \* the most recent call: operation, arguments, result
    notes,    \* notifications sent to the chain by the most recent call
    hw,       \* hardware callbacks invoked by the most recent call
    conv,     \* inputs and results of the conversion under SpecMath
    smp       \* the holder of clockevents_lock, each processor's call in flight

vars == <<dev, list, broadcast, hwfloor, adaptive, now, pc, prog, last,
          notes, hw, conv, smp>>

(***************************************************************************)
(* Intrusive lists (include/linux/list.h, without CONFIG_DEBUG_LIST).      *)
(* A list state is [next, prev, ok]; ok turns FALSE when an operation      *)
(* dereferences a pointer that is no node (NULL or a poison value).        *)
(***************************************************************************)
Lst(l) == [next |-> l.next, prev |-> l.prev, ok |-> TRUE]

Unl(L) == [next |-> L.next, prev |-> L.prev]

\* list_add(new, head): insert new right after head.
list_add(L, new, head) ==
    LET n == L.next[head]
    IN  IF ~L.ok \/ n \notin Nodes THEN [L EXCEPT !.ok = FALSE]
        ELSE LET prev1 == [L.prev EXCEPT ![n] = new]
                 next1 == [L.next EXCEPT ![new] = n]
                 prev2 == [prev1 EXCEPT ![new] = head]
                 next2 == [next1 EXCEPT ![head] = new]
             IN  [next |-> next2, prev |-> prev2, ok |-> TRUE]

\* list_del(entry): unlink entry from its neighbours and poison it.
list_del(L, e) ==
    LET p == L.prev[e]
        n == L.next[e]
    IN  IF ~L.ok \/ p \notin Nodes \/ n \notin Nodes
        THEN [L EXCEPT !.ok = FALSE]
        ELSE LET prev1 == [L.prev EXCEPT ![n] = p]
                 next1 == [L.next EXCEPT ![p] = n]
             IN  [next |-> [next1 EXCEPT ![e] = "LIST_POISON1"],
                  prev |-> [prev1 EXCEPT ![e] = "LIST_POISON2"],
                  ok   |-> TRUE]

list_empty(L, head) == L.next[head] = head

\* The entries met walking ->next from head, until head comes round again,
\* a pointer that is no node is met, or k entries have been visited.
RECURSIVE Walk(_, _, _, _)
Walk(l, head, cur, k) ==
    IF cur = head \/ cur \notin Nodes \/ k = 0 THEN <<>>
    ELSE <<cur>> \o Walk(l, head, l.next[cur], k - 1)

WalkBound == 2 * Cardinality(Nodes)

Entries(l, head) == Walk(l, head, l.next[head], WalkBound)

Range(s) == {s[i] : i \in 1 .. Len(s)}

\* The devices on the list of head.
OnList(l, head) == Range(Entries(l, head)) \cap Devs

\* head's list is a proper ring of distinct devices.
ProperList(l, head) ==
    LET e == Entries(l, head)
    IN  /\ Len(e) < WalkBound
        /\ Range(e) \subseteq Devs
        /\ \A i, j \in 1 .. Len(e) : i # j => e[i] # e[j]
        /\ l.next[IF Len(e) = 0 THEN head ELSE e[Len(e)]] = head

Active(l) == OnList(l, clockevent_devices)

Released(l) == OnList(l, clockevents_released)

(***************************************************************************)
(* The device structure and the calls' records.                            *)
(***************************************************************************)
\* The affinity each driver gives its device; {} is a NULL cpumask.
DriverCpumask == [d \in Devs |->
    IF d = "A" THEN {0} ELSE IF d = "B" THEN {} ELSE Cpus]

NewDevice(d, feat) ==
    [mode            |-> "UNUSED",
     features        |-> feat,
     cpumask         |-> DriverCpumask[d],
     mult            |-> 0,
     shift           |-> 0,
     min_delta_ticks |-> 0,
     max_delta_ticks |-> 0,
     min_delta_ns    |-> 0,
     max_delta_ns    |-> 0,
     next_event      |-> 0,
     retries         |-> 0]

\* The record of a call; n counts the calls made so far.
Call(op, d, new, cpu, t, force, ret) ==
    [op |-> op, d |-> d, new |-> new, cpu |-> cpu, t |-> t,
     force |-> force, ret |-> ret, n |-> last.n + 1]

NoCall == [op |-> "none", d |-> NoDev, new |-> NoDev, cpu |-> 0, t |-> 0,
           force |-> FALSE, ret |-> 0, n |-> 0]

Idle == [pc |-> "idle", d |-> NoDev, i |-> 0, attempts |-> 0, grown |-> 0]

HwCall(fn, d, mode, val) == [fn |-> fn, d |-> d, mode |-> mode, val |-> val]

\* A notification as the chain sees it: reason, argument, and for a device
\* the node its list_head follows when the notification is sent.
Note(reason, d, cpu, at) == [reason |-> reason, d |-> d, cpu |-> cpu, at |-> at]

NoConv == [pc |-> "off", latch1 |-> 0, latch2 |-> 0, mult |-> 1, shift |-> 0,
           ismax |-> FALSE, ns1 |-> 0, ns2 |-> 0, ticks |-> 0]

\* The position of a registry call in flight on one processor: the
\* operation, the statement it is at, its arguments (d, new, reason, cpu) and
\* its loop cursor (pos, tmp).
Frame(op, at, d, new, reason, cpu, pos, tmp) ==
    [op |-> op, pc |-> at, d |-> d, new |-> new, reason |-> reason,
     cpu |-> cpu, pos |-> pos, tmp |-> tmp]

IdleFrame == Frame("idle", "idle", NoDev, NoDev, "-", 0, "NULL", "NULL")

\* static DEFINE_RAW_SPINLOCK(clockevents_lock): the set of its holders.
Unlocked == {}

NoSmp == [lock |-> Unlocked, frame |-> [c \in Cpus |-> IdleFrame]]

(***************************************************************************)
(* Mode state machine.                                                     *)
(***************************************************************************)
\* A set_mode that commits the mode without the hardware callback.
SetModeCalls_silent(r, d, mode) == <<>>

\* The hardware callbacks clockevents_set_mode(dev, mode) makes.
SetModeCalls(r, d, mode) ==
    IF r.mode # mode THEN <<HwCall("set_mode", d, mode, 0)>> ELSE <<>>

\* A set_mode that enters ONESHOT without looking at mult.
clockevents_set_mode_norepair(r, mode) ==
    IF r.mode # mode THEN [r EXCEPT !.mode = mode] ELSE r

\* The device after clockevents_set_mode(dev, mode).
clockevents_set_mode(r, mode) ==
    IF r.mode # mode
    THEN [r EXCEPT !.mode = mode,
                   !.mult = IF mode = "ONESHOT" /\ r.mult = 0 THEN 1 ELSE @]
    ELSE r

\* The device after clockevents_shutdown(dev).
clockevents_shutdown(r) ==
    [clockevents_set_mode(r, "SHUTDOWN") EXCEPT !.next_event = KTIME_MAX]

Ready == pc = "run" /\ prog.pc = "idle" /\ last.n < MaxCalls

SetMode(d, mode) ==
    /\ Ready
    /\ dev' = [dev EXCEPT ![d] = clockevents_set_mode(dev[d], mode)]
    /\ hw' = SetModeCalls(dev[d], d, mode)
    /\ last' = Call("set_mode", d, NoDev, 0, 0, FALSE, 0)
    /\ notes' = <<>>
    /\ prog' = Idle
    /\ UNCHANGED <<list, broadcast, hwfloor, adaptive, now, pc, conv, smp>>

Shutdown(d) ==
    /\ Ready
    /\ dev' = [dev EXCEPT ![d] = clockevents_shutdown(dev[d])]
    /\ hw' = SetModeCalls(dev[d], d, "SHUTDOWN")
    /\ last' = Call("shutdown", d, NoDev, 0, 0, FALSE, 0)
    /\ notes' = <<>>
    /\ prog' = Idle
    /\ UNCHANGED <<list, broadcast, hwfloor, adaptive, now, pc, conv, smp>>

(***************************************************************************)
(* Registry.                                                               *)
(***************************************************************************)
Outcome(L, ns, end) == [L |-> L, notes |-> ns, end |-> end]

\* clockevents_notify_released(): the loop ends "done", or never ends
\* ("hung": a list state of the loop comes round again), or dereferences a
\* pointer that is no device ("oops").
RECURSIVE clockevents_notify_released(_, _, _)
clockevents_notify_released(L, ns, seen) ==
    IF ~L.ok THEN Outcome(L, ns, "oops")
    ELSE IF list_empty(L, clockevents_released) THEN Outcome(L, ns, "done")
    ELSE IF L \in seen THEN Outcome(L, ns, "hung")
    ELSE LET d == L.next[clockevents_released]
         IN  IF d \notin Devs THEN Outcome(L, ns, "oops")
             ELSE LET L1 == list_del(L, d)
                      L2 == list_add(L1, d, clockevent_devices)
                  IN  IF ~L2.ok THEN Outcome(L2, ns, "oops")
                      ELSE clockevents_notify_released(
                               L2, Append(ns, Note("ADD", d, 0, L2.prev[d])),
                               seen \cup {L})

EndPc(end) == IF end = "done" THEN "run" ELSE end

\* A registration that leaves the released backlog alone.
RegisterLocked_nodrain(l, d) ==
    LET L1 == list_add(Lst(l), d, clockevent_devices)
    IN  Outcome(L1, <<Note("ADD", d, 0, L1.prev[d])>>, "done")

\* The lists and notifications of clockevents_register_device(d) from the
\* lock on.
RegisterLocked(l, d) ==
    LET L1 == list_add(Lst(l), d, clockevent_devices)
    IN  clockevents_notify_released(
            L1, <<Note("ADD", d, 0, L1.prev[d])>>, {})

\* if (!dev->cpumask) dev->cpumask = cpumask_of(smp_processor_id());
DefaultCpumask(r, cpu) ==
    IF r.cpumask = {} THEN [r EXCEPT !.cpumask = {cpu}] ELSE r

\* clockevents_register_device(dev), called on processor cpu.
RegisterDevice(d, cpu, r, op) ==
    IF r.mode # "UNUSED"
    THEN /\ pc' = "BUG"
         /\ dev' = [dev EXCEPT ![d] = r]
         /\ last' = Call(op, d, NoDev, cpu, 0, FALSE, 0)
         /\ notes' = <<>>
         /\ UNCHANGED list
    ELSE LET res == RegisterLocked(list, d)
         IN  /\ pc' = EndPc(res.end)
             /\ dev' = [dev EXCEPT ![d] = DefaultCpumask(r, cpu)]
             /\ list' = Unl(res.L)
             /\ notes' = res.notes
             /\ last' = Call(op, d, NoDev, cpu, 0, FALSE, 0)

Register(d, cpu) ==
    /\ Ready
    /\ RegisterDevice(d, cpu, dev[d], "register")
    /\ hw' = <<>>
    /\ prog' = Idle
    /\ UNCHANGED <<broadcast, hwfloor, adaptive, now, conv, smp>>

(***************************************************************************)
(* clockevents_config.  clockevents_calc_mult_shift is not part of this    *)
(* file: the scale factor it derives from the frequency is an input, sf.   *)
(***************************************************************************)
ScaleFactors == {<<m, s>> : m \in 0 .. MaxMult, s \in 0 .. MaxShift}

\* The device after clockevents_config(dev, freq), sf being the scale
\* factor computed for freq.  cev_delta2ns repairs a zero mult in place.
clockevents_config(r, sf) ==
    IF "ONESHOT" \notin r.features THEN r
    ELSE [r EXCEPT
            !.mult = RepairMult(sf[1]),
            !.shift = sf[2],
            !.min_delta_ns = cev_delta2ns(r.min_delta_ticks, sf[1], sf[2], FALSE),
            !.max_delta_ns = cev_delta2ns(r.max_delta_ticks, sf[1], sf[2], TRUE)]

\* clockevents_config_and_register(dev, freq, min_delta, max_delta)
ConfigAndRegister(d, sf, min_delta, max_delta, cpu) ==
    /\ Ready
    /\ RegisterDevice(d, cpu,
           clockevents_config([dev[d] EXCEPT !.min_delta_ticks = min_delta,
                                             !.max_delta_ticks = max_delta], sf),
           "config_and_register")
    /\ hw' = <<>>
    /\ prog' = Idle
    /\ UNCHANGED <<broadcast, hwfloor, adaptive, now, conv, smp>>

(***************************************************************************)
(* clockevents_exchange_device(old, new); either may be NoDev (NULL).      *)
(***************************************************************************)
\* An exchange that leaves the old device where it is.
ExchangeOldList_stay(l, old) == Lst(l)

\* The lists after the old device, if any, has been moved to released.
ExchangeOldList(l, old) ==
    IF old = NoDev THEN Lst(l)
    ELSE list_add(list_del(Lst(l), old), old, clockevents_released)

Exchange(old, new) ==
    /\ Ready
    /\ LET dev1 == IF old = NoDev THEN dev
                   ELSE [dev EXCEPT ![old] = clockevents_set_mode(@, "UNUSED")]
           hw1  == IF old = NoDev THEN <<>>
                   ELSE SetModeCalls(dev[old], old, "UNUSED")
           L1   == ExchangeOldList(list, old)
       IN  /\ last' = Call("exchange", old, new, 0, 0, FALSE, 0)
           /\ notes' = <<>>
           /\ IF ~L1.ok
              THEN \* list_del dereferenced NULL or a poison pointer
                   /\ pc' = "oops"
                   /\ dev' = dev1
                   /\ hw' = hw1
                   /\ UNCHANGED list
              ELSE /\ list' = Unl(L1)
                   /\ IF new = NoDev
                      THEN /\ dev' = dev1
                           /\ hw' = hw1
                           /\ UNCHANGED pc
                      ELSE IF dev1[new].mode # "UNUSED"
                      THEN /\ pc' = "BUG"
                           /\ dev' = dev1
                           /\ hw' = hw1
                      ELSE /\ dev' = [dev1 EXCEPT
                                        ![new] = clockevents_shutdown(@)]
                           /\ hw' = hw1 \o SetModeCalls(dev1[new], new, "SHUTDOWN")
                           /\ UNCHANGED pc
    /\ prog' = Idle
    /\ UNCHANGED <<broadcast, hwfloor, adaptive, now, conv, smp>>

(***************************************************************************)
(* clockevents_notify(reason, arg).                                        *)
(***************************************************************************)
Cursor(L, pos, n, end) == [L |-> L, pos |-> pos, n |-> n, end |-> end]

\* list_for_each_entry_safe(dev, tmp, &clockevents_released, list)
\*     list_del(&dev->list);
RECURSIVE DropReleased(_, _, _, _)
DropReleased(L, pos, n, seen) ==
    IF pos = clockevents_released THEN Cursor(L, pos, n, "done")
    ELSE IF <<L, pos, n>> \in seen THEN Cursor(L, pos, n, "hung")
    ELSE LET L1 == list_del(L, pos)
         IN  IF ~L1.ok \/ n \notin Nodes THEN Cursor(L1, pos, n, "oops")
             ELSE DropReleased(L1, n, L1.next[n], seen \cup {<<L, pos, n>>})

\* tick_is_broadcast_device(dev)
tick_is_broadcast_device(d) == d # NoDev /\ broadcast = d

\* A pruning test that forgets the exclusive-ownership condition.
Prunable_anyweight(d, cpu) ==
    /\ cpu \in dev[d].cpumask
    /\ ~tick_is_broadcast_device(d)

\* The test of the processor-dead loop over the active devices.
Prunable(d, cpu) ==
    /\ cpu \in dev[d].cpumask
    /\ Cardinality(dev[d].cpumask) = 1
    /\ ~tick_is_broadcast_device(d)

\* list_for_each_entry_safe(dev, tmp, &clockevent_devices, list) { ... }
RECURSIVE PruneActive(_, _, _, _, _)
PruneActive(L, pos, n, cpu, seen) ==
    IF pos = clockevent_devices THEN Cursor(L, pos, n, "done")
    ELSE IF <<L, pos, n>> \in seen THEN Cursor(L, pos, n, "hung")
    ELSE IF pos \notin Devs THEN Cursor(L, pos, n, "oops")
    ELSE IF Prunable(pos, cpu) /\ dev[pos].mode # "UNUSED"
         THEN Cursor(L, pos, n, "BUG")
    ELSE LET L1 == IF Prunable(pos, cpu) THEN list_del(L, pos) ELSE L
         IN  IF ~L1.ok \/ n \notin Nodes THEN Cursor(L1, pos, n, "oops")
             ELSE PruneActive(L1, n, L1.next[n], cpu, seen \cup {<<L, pos, n>>})

\* The first cursor of list_for_each_entry_safe over head.
FirstPos(L, head) == L.next[head]

FirstTmp(L, head) ==
    IF L.next[head] \in Nodes THEN L.next[L.next[head]] ELSE "NULL"

\* case CLOCK_EVT_NOTIFY_CPU_DEAD
CpuDead(l, cpu) ==
    LET L0 == Lst(l)
        r1 == IF FirstPos(L0, clockevents_released) \notin Nodes
              THEN Cursor(L0, "NULL", "NULL", "oops")
              ELSE DropReleased(L0, FirstPos(L0, clockevents_released),
                                FirstTmp(L0, clockevents_released), {})
    IN  IF r1.end # "done" THEN r1
        ELSE IF FirstPos(r1.L, clockevent_devices) \notin Nodes
        THEN Cursor(r1.L, "NULL", "NULL", "oops")
        ELSE PruneActive(r1.L, FirstPos(r1.L, clockevent_devices),
                         FirstTmp(r1.L, clockevent_devices), cpu, {})

NotifyReasons == {"CPU_DEAD", "BROADCAST_ON"}

Notify(reason, cpu) ==
    /\ Ready
    /\ notes' = <<Note(reason, NoDev, cpu, NoDev)>>
    /\ last' = Call("notify_" \o reason, NoDev, NoDev, cpu, 0, FALSE, 0)
    /\ hw' = <<>>
    /\ IF reason = "CPU_DEAD"
       THEN LET res == CpuDead(list, cpu)
            IN  /\ list' = Unl(res.L)
                /\ pc' = EndPc(res.end)
       ELSE UNCHANGED <<list, pc>>
    /\ prog' = Idle
    /\ UNCHANGED <<dev, broadcast, hwfloor, adaptive, now, conv, smp>>

(***************************************************************************)
(* The hardware callbacks.  set_next_event may fail when the tick count is *)
(* small enough to race the counter: a device either never arms, or arms   *)
(* every tick count from its floor on and may fail below it.               *)
(***************************************************************************)
HwNever == [never |-> TRUE, floor |-> 0]

HwFloor(f) == [never |-> FALSE, floor |-> f]

SetNextEventResults(h, clc) ==
    IF h.never THEN {0 - ETIME}
    ELSE IF clc >= h.floor THEN {0}
    ELSE {0, 0 - ETIME}

SetNextKtimeResults == {0, 0 - ETIME}

ToU64(x) == x % Word

(***************************************************************************)
(* clockevents_program_event, up to the point where it returns or enters   *)
(* clockevents_program_min_delta.  Each outcome is the device after the    *)
(* call, the hardware calls made, the value returned and whether the       *)
(* minimum-delta fallback takes over.                                      *)
(***************************************************************************)
Out(r, calls, ret, fallback) ==
    [r |-> r, hw |-> calls, ret |-> ret, fallback |-> fallback]

\* The clamped delta of the relative path, as the u64 handed to the scaling.
ClampDelta(r, delta) ==
    ToU64(Max(Min(delta, ToS64(r.max_delta_ns)), ToS64(r.min_delta_ns)))

\* A programmer that arms a device that is shut down.
ProgramOutcomes_noshutdown(r, d, h, expires, force, t) ==
    LET clc == NsToTicks(ClampDelta(r, Max(expires - t, 1)), r.mult, r.shift)
    IN  {Out([r EXCEPT !.next_event = expires],
             <<HwCall("set_next_event", d, "-", clc)>>, res, FALSE) :
             res \in SetNextEventResults(h, clc)}

\* A programmer that lets a target in the past through to the hardware.
ProgramOutcomes_nopast(r, d, h, expires, force, t) ==
    LET clc == NsToTicks(ClampDelta(r, expires - t), r.mult, r.shift)
    IN  IF r.mode = "SHUTDOWN"
        THEN {Out([r EXCEPT !.next_event = expires], <<>>, 0, FALSE)}
        ELSE {Out([r EXCEPT !.next_event = expires],
                  <<HwCall("set_next_event", d, "-", clc)>>, res, FALSE) :
                  res \in SetNextEventResults(h, clc)}

\* A programmer that does not record the target in next_event.
ProgramOutcomes_norecord(r, d, h, expires, force, t) ==
    IF expires < 0 THEN {Out(r, <<>>, 0 - ETIME, FALSE)}
    ELSE
    LET r1 == r
        delta == expires - t
    IN  IF r1.mode = "SHUTDOWN" THEN {Out(r1, <<>>, 0, FALSE)}
        ELSE IF "KTIME" \in r1.features
        THEN {Out(r1, <<HwCall("set_next_ktime", d, "-", expires)>>, res, FALSE) :
                  res \in SetNextKtimeResults}
        ELSE IF delta <= 0
        THEN IF force THEN {Out(r1, <<>>, 0, TRUE)}
                      ELSE {Out(r1, <<>>, 0 - ETIME, FALSE)}
        ELSE LET clc == NsToTicks(ClampDelta(r1, delta), r1.mult, r1.shift)
             IN  {Out(r1, <<HwCall("set_next_event", d, "-", clc)>>,
                      IF res # 0 /\ force THEN 0 ELSE res,
                      res # 0 /\ force) :
                      res \in SetNextEventResults(h, clc)}

\* A programmer that ignores the absolute-time capability.
ProgramOutcomes_noktime(r, d, h, expires, force, t) ==
    IF expires < 0 THEN {Out(r, <<>>, 0 - ETIME, FALSE)}
    ELSE
    LET r1 == [r EXCEPT !.next_event = expires]
        delta == expires - t
    IN  IF r1.mode = "SHUTDOWN" THEN {Out(r1, <<>>, 0, FALSE)}
        ELSE IF FALSE
        THEN {Out(r1, <<HwCall("set_next_ktime", d, "-", expires)>>, res, FALSE) :
                  res \in SetNextKtimeResults}
        ELSE IF delta <= 0
        THEN IF force THEN {Out(r1, <<>>, 0, TRUE)}
                      ELSE {Out(r1, <<>>, 0 - ETIME, FALSE)}
        ELSE LET clc == NsToTicks(ClampDelta(r1, delta), r1.mult, r1.shift)
             IN  {Out(r1, <<HwCall("set_next_event", d, "-", clc)>>,
                      IF res # 0 /\ force THEN 0 ELSE res,
                      res # 0 /\ force) :
                      res \in SetNextEventResults(h, clc)}

\* The outcomes of clockevents_program_event up to its return or its entry
\* into the minimum-delta fallback.
ProgramOutcomes(r, d, h, expires, force, t) ==
    IF expires < 0 THEN {Out(r, <<>>, 0 - ETIME, FALSE)}
    ELSE
    LET r1 == [r EXCEPT !.next_event = expires]
        delta == expires - t
    IN  IF r1.mode = "SHUTDOWN" THEN {Out(r1, <<>>, 0, FALSE)}
        ELSE IF "KTIME" \in r1.features
        THEN {Out(r1, <<HwCall("set_next_ktime", d, "-", expires)>>, res, FALSE) :
                  res \in SetNextKtimeResults}
        ELSE IF delta <= 0
        THEN IF force THEN {Out(r1, <<>>, 0, TRUE)}
                      ELSE {Out(r1, <<>>, 0 - ETIME, FALSE)}
        ELSE LET clc == NsToTicks(ClampDelta(r1, delta), r1.mult, r1.shift)
             IN  {Out(r1, <<HwCall("set_next_event", d, "-", clc)>>,
                      IF res # 0 /\ force THEN 0 ELSE res,
                      res # 0 /\ force) :
                      res \in SetNextEventResults(h, clc)}

MinDeltaAt(d) == [pc |-> "min_delta", d |-> d, i |-> 0, attempts |-> 0,
                  grown |-> 0]

\* clockevents_program_event(dev, expires, force)
ProgramEvent(d, expires, force) ==
    /\ Ready
    /\ dev[d].retries < MaxRetries
    /\ \E o \in ProgramOutcomes(dev[d], d, hwfloor[d], expires, force, now) :
          /\ dev' = [dev EXCEPT ![d] = o.r]
          /\ hw' = o.hw
          /\ last' = Call("program", d, NoDev, 0, expires, force, o.ret)
          /\ prog' = IF o.fallback THEN MinDeltaAt(d) ELSE Idle
    /\ notes' = <<>>
    /\ UNCHANGED <<list, broadcast, hwfloor, adaptive, now, pc, conv, smp>>

(***************************************************************************)
(* clockevents_program_min_delta: one action per pass of its loop (the     *)
(* single-attempt policy makes one pass).                                  *)
(***************************************************************************)
\* A growth step that forgets the ceiling.
GrowMinDelta_nocap(ns) ==
    IF ns < MIN_DELTA_FLOOR THEN MIN_DELTA_FLOOR ELSE ToU64(ns + Shr(ns, 1))

\* The new min_delta_ns of clockevents_increase_min_delta when it grows.
GrowMinDelta(ns) ==
    LET g == IF ns < MIN_DELTA_FLOOR THEN MIN_DELTA_FLOOR
             ELSE ToU64(ns + Shr(ns, 1))
    IN  IF g > MIN_DELTA_LIMIT THEN MIN_DELTA_LIMIT ELSE g

\* clockevents_increase_min_delta gives up.
GivesUp(ns) == ns >= MIN_DELTA_LIMIT

\* A loop that grows after two failures.
GrowthDue_two(i) == i + 1 > 1

\* if (++i > 2)
GrowthDue(i) == i + 1 > 2

\* The call returns ret; prog keeps the counts of its minimum-delta path.
Finish(p, ret) ==
    /\ prog' = [p EXCEPT !.pc = "idle"]
    /\ last' = [last EXCEPT !.ret = ret]

\* A fallback that arms without counting the attempt in retries.
MinDelta_uncounted(d) ==
    /\ pc = "run"
    /\ prog.pc = "min_delta"
    /\ prog.d = d
    /\ LET r     == dev[d]
           delta == ToS64(r.min_delta_ns)
           r1    == [r EXCEPT !.next_event = now + delta]
           clc   == NsToTicks(ToU64(delta), r.mult, r.shift)
           r2    == r1
           p1    == [prog EXCEPT !.attempts = @ + 1]
       IN  IF r.mode = "SHUTDOWN"
           THEN /\ dev' = [dev EXCEPT ![d] = r1]
                /\ Finish(prog, 0)
                /\ UNCHANGED hw
           ELSE
           /\ hw' = Append(hw, HwCall("set_next_event", d, "-", clc))
           /\ \E res \in SetNextEventResults(hwfloor[d], clc) :
                IF ~adaptive
                THEN /\ dev' = [dev EXCEPT ![d] = r2]
                     /\ Finish(p1, res)
                ELSE IF res = 0
                THEN /\ dev' = [dev EXCEPT ![d] = r2]
                     /\ Finish(p1, 0)
                ELSE IF ~GrowthDue(prog.i)
                THEN /\ dev' = [dev EXCEPT ![d] = r2]
                     /\ prog' = [p1 EXCEPT !.i = @ + 1]
                     /\ UNCHANGED last
                ELSE IF GivesUp(r2.min_delta_ns)
                THEN /\ dev' = [dev EXCEPT ![d] =
                                   [r2 EXCEPT !.next_event = KTIME_MAX]]
                     /\ Finish([p1 EXCEPT !.i = @ + 1], 0 - ETIME)
                ELSE /\ dev' = [dev EXCEPT ![d] =
                                   [r2 EXCEPT !.min_delta_ns = GrowMinDelta(@)]]
                     /\ prog' = [p1 EXCEPT !.i = 0, !.grown = @ + 1]
                     /\ UNCHANGED last
    /\ UNCHANGED <<list, broadcast, hwfloor, adaptive, now, pc, notes, conv, smp>>

\* One pass of the loop of clockevents_program_min_delta(dev).
MinDelta(d) ==
    /\ pc = "run"
    /\ prog.pc = "min_delta"
    /\ prog.d = d
    /\ LET r     == dev[d]
           delta == ToS64(r.min_delta_ns)
           r1    == [r EXCEPT !.next_event = now + delta]
           clc   == NsToTicks(ToU64(delta), r.mult, r.shift)
           r2    == [r1 EXCEPT !.retries = @ + 1]
           p1    == [prog EXCEPT !.attempts = @ + 1]
       IN  IF r.mode = "SHUTDOWN"
           THEN /\ dev' = [dev EXCEPT ![d] = r1]
                /\ Finish(prog, 0)
                /\ UNCHANGED hw
           ELSE
           /\ hw' = Append(hw, HwCall("set_next_event", d, "-", clc))
           /\ \E res \in SetNextEventResults(hwfloor[d], clc) :
                IF ~adaptive
                THEN /\ dev' = [dev EXCEPT ![d] = r2]
                     /\ Finish(p1, res)
                ELSE IF res = 0
                THEN /\ dev' = [dev EXCEPT ![d] = r2]
                     /\ Finish(p1, 0)
                ELSE IF ~GrowthDue(prog.i)
                THEN /\ dev' = [dev EXCEPT ![d] = r2]
                     /\ prog' = [p1 EXCEPT !.i = @ + 1]
                     /\ UNCHANGED last
                ELSE IF GivesUp(r2.min_delta_ns)
                THEN /\ dev' = [dev EXCEPT ![d] =
                                   [r2 EXCEPT !.next_event = KTIME_MAX]]
                     /\ Finish([p1 EXCEPT !.i = @ + 1], 0 - ETIME)
                ELSE /\ dev' = [dev EXCEPT ![d] =
                                   [r2 EXCEPT !.min_delta_ns = GrowMinDelta(@)]]
                     /\ prog' = [p1 EXCEPT !.i = 0, !.grown = @ + 1]
                     /\ UNCHANGED last
    /\ UNCHANGED <<list, broadcast, hwfloor, adaptive, now, pc, notes, conv, smp>>

\* An update_freq that reprograms with force.
UpdateFreq_forced(d, sf) ==
    /\ Ready
    /\ LET r == clockevents_config(dev[d], sf)
       IN  IF r.mode # "ONESHOT"
           THEN /\ dev' = [dev EXCEPT ![d] = r]
                /\ hw' = <<>>
                /\ last' = Call("update_freq", d, NoDev, 0, 0, FALSE, 0)
           ELSE \E o \in ProgramOutcomes(r, d, hwfloor[d], r.next_event,
                                         TRUE, now) :
                   /\ dev' = [dev EXCEPT ![d] = o.r]
                   /\ hw' = o.hw
                   /\ last' = Call("update_freq", d, NoDev, 0, r.next_event,
                                   FALSE, o.ret)
    /\ notes' = <<>>
    /\ prog' = Idle
    /\ UNCHANGED <<list, broadcast, hwfloor, adaptive, now, pc, conv, smp>>

\* clockevents_update_freq(dev, freq), sf being the scale factor for freq.
UpdateFreq(d, sf) ==
    /\ Ready
    /\ LET r == clockevents_config(dev[d], sf)
       IN  IF r.mode # "ONESHOT"
           THEN /\ dev' = [dev EXCEPT ![d] = r]
                /\ hw' = <<>>
                /\ last' = Call("update_freq", d, NoDev, 0, 0, FALSE, 0)
           ELSE \E o \in ProgramOutcomes(r, d, hwfloor[d], r.next_event,
                                         FALSE, now) :
                   /\ dev' = [dev EXCEPT ![d] = o.r]
                   /\ hw' = o.hw
                   /\ last' = Call("update_freq", d, NoDev, 0, r.next_event,
                                   FALSE, o.ret)
    /\ notes' = <<>>
    /\ prog' = Idle
    /\ UNCHANGED <<list, broadcast, hwfloor, adaptive, now, pc, conv, smp>>

\* Time passes while the minimum-delta loop runs.
Tick ==
    /\ pc = "run"
    /\ prog.pc = "min_delta"
    /\ now < MaxNow
    /\ now' = now + 1
    /\ UNCHANGED <<dev, list, broadcast, hwfloor, adaptive, pc, prog, last,
                   notes, hw, conv, smp>>

(***************************************************************************)
(* The registry machine: registration, exchange, notification and the mode *)
(* state machine over all devices, with one fixed configuration.           *)
(***************************************************************************)
AllFeatures == {"ONESHOT", "PERIODIC"}

RegistryTicks == 2000

\* A device as its driver hands it over: configured, never registered.
DriverDevice(d) ==
    clockevents_config([NewDevice(d, AllFeatures) EXCEPT
                           !.min_delta_ticks = RegistryTicks,
                           !.max_delta_ticks = RegistryTicks], <<1, 0>>)

FreshLists ==
    [next |-> [n \in Nodes |-> IF n \in Devs THEN "NULL" ELSE n],
     prev |-> [n \in Nodes |-> IF n \in Devs THEN "NULL" ELSE n]]

Init ==
    /\ dev = [d \in Devs |-> DriverDevice(d)]
    /\ list = FreshLists
    /\ broadcast \in {NoDev, "A"}
    /\ hwfloor = [d \in Devs |-> HwFloor(0)]
    /\ adaptive = TRUE
    /\ now = 1
    /\ pc = "run"
    /\ prog = Idle
    /\ last = NoCall
    /\ notes = <<>>
    /\ hw = <<>>
    /\ smp = NoSmp
    /\ conv = NoConv

RegistryModes == {"UNUSED", "ONESHOT"}

Next ==
    \/ \E d \in Devs, m \in RegistryModes : SetMode(d, m)
    \/ \E d \in Devs, c \in Cpus : Register(d, c)
    \/ \E d \in Devs, c \in Cpus :
          ConfigAndRegister(d, <<1, 0>>, RegistryTicks, RegistryTicks, c)
    \/ \E old \in Devs \cup {NoDev}, new \in Devs \cup {NoDev} :
          Exchange(old, new)
    \/ \E reason \in NotifyReasons, c \in Cpus : Notify(reason, c)

Spec == Init /\ [][Next]_vars

(***************************************************************************)
(* The programming machine: one device, "A", with every combination of     *)
(* capability flags, configured, switched between modes and programmed.    *)
(***************************************************************************)
ProgDev == "A"

\* (min_delta_ticks, max_delta_ticks) pairs the driver may pass.
TickPairs == {<<2001, 2001>>, <<2001, MaxWord>>, <<MaxWord, MaxWord>>}

HwChoices == {HwNever, HwFloor(0), HwFloor(MidDelta)}

\* Targets of a program call: before time zero or at it, just past, ahead.
Expiries == {now - 2, now - 1, now + MidDelta}

\* The capability flags of the programmed device (PERIODIC is read nowhere
\* in this file).
ProgFeatures == (SUBSET {"ONESHOT", "KTIME"}) \cup {Features}

InitProg ==
    /\ \E feat \in ProgFeatures :
          dev = [d \in Devs |-> IF d = ProgDev THEN NewDevice(d, feat)
                                ELSE DriverDevice(d)]
    /\ list = FreshLists
    /\ broadcast = NoDev
    /\ \E h \in HwChoices : hwfloor = [d \in Devs |-> h]
    /\ adaptive \in BOOLEAN
    /\ now = 1
    /\ pc = "run"
    /\ prog = Idle
    /\ last = NoCall
    /\ notes = <<>>
    /\ hw = <<>>
    /\ smp = NoSmp
    /\ conv = NoConv

\* The scale factors of the programmed device: a zero mult, unit, above
\* 1 GHz, below.
ProgScaleFactors == {<<0, 0>>, <<1, 0>>, <<MaxMult, 0>>, <<1, MaxShift>>}

ProgCall ==
    \/ \E sf \in ProgScaleFactors, tp \in TickPairs :
          ConfigAndRegister(ProgDev, sf, tp[1], tp[2], 0)
    \/ \E sf \in ProgScaleFactors : UpdateFreq(ProgDev, sf)
    \/ \E m \in Modes : SetMode(ProgDev, m)
    \/ Shutdown(ProgDev)
    \/ \E old \in {ProgDev, NoDev} : Exchange(old, ProgDev)
    \/ \E t \in Expiries, force \in BOOLEAN : ProgramEvent(ProgDev, t, force)

NextProg ==
    \/ (last.n < MaxProgCalls /\ ProgCall)
    \/ MinDelta(ProgDev)
    \/ Tick

SpecProg == InitProg /\ [][NextProg]_vars

(***************************************************************************)
(* The minimum-delta backoff on its own: the adaptive policy, a configured *)
(* device that is not shut down and arms relative deltas, hardware that    *)
(* rejects every tick count, and forced calls for a target just past.      *)
(***************************************************************************)
InitBackoff ==
    /\ \E sf \in ScaleFactors, tp \in TickPairs,
          m \in Modes \ {"SHUTDOWN"} :
          dev = [d \in Devs |->
                   IF d = ProgDev
                   THEN [clockevents_config(
                            [NewDevice(d, AllFeatures) EXCEPT
                                !.min_delta_ticks = tp[1],
                                !.max_delta_ticks = tp[2]], sf)
                         EXCEPT !.mode = m]
                   ELSE DriverDevice(d)]
    /\ list = FreshLists
    /\ broadcast = NoDev
    /\ hwfloor = [d \in Devs |-> HwNever]
    /\ adaptive = TRUE
    /\ now = 1
    /\ pc = "run"
    /\ prog = Idle
    /\ last = NoCall
    /\ notes = <<>>
    /\ hw = <<>>
    /\ smp = NoSmp
    /\ conv = NoConv

NextBackoff ==
    \/ ProgramEvent(ProgDev, now - 1, TRUE)
    \/ MinDelta(ProgDev)
    \/ Tick

\* A call of the event programmer, once entered, runs on.
SpecBackoff == InitBackoff /\ [][NextBackoff]_vars /\ WF_vars(MinDelta(ProgDev))

(***************************************************************************)
(* The backoff against hardware that accepts: the adaptive policy, a       *)
(* configured device that is not shut down and arms relative deltas,       *)
(* hardware that arms every tick count from a floor on (no floor, a floor  *)
(* in between, or the tick count of the ceiling NSEC_PER_SEC/HZ itself),   *)
(* and forced calls for a target just past or ahead.                       *)
(***************************************************************************)
\* The tick count of a delta of NSEC_PER_SEC/HZ on device r.
CeilingTicks(r) == NsToTicks(MIN_DELTA_LIMIT, r.mult, r.shift)

InitAccept ==
    /\ \E sf \in ProgScaleFactors, tp \in TickPairs,
          m \in RegistryModes, feat \in {AllFeatures, {"PERIODIC"}} :
          LET r == [clockevents_config(
                       [NewDevice(ProgDev, feat) EXCEPT
                           !.min_delta_ticks = tp[1],
                           !.max_delta_ticks = tp[2]], sf)
                    EXCEPT !.mode = m]
          IN  /\ dev = [d \in Devs |-> IF d = ProgDev THEN r
                                       ELSE DriverDevice(d)]
              /\ \E h \in {HwFloor(0), HwFloor(MidDelta),
                           HwFloor(CeilingTicks(r))} :
                    hwfloor = [d \in Devs |-> h]
    /\ list = FreshLists
    /\ broadcast = NoDev
    /\ adaptive = TRUE
    /\ now = 1
    /\ pc = "run"
    /\ prog = Idle
    /\ last = NoCall
    /\ notes = <<>>
    /\ hw = <<>>
    /\ smp = NoSmp
    /\ conv = NoConv

NextAccept ==
    \/ \E t \in {now - 1, now + MidDelta} : ProgramEvent(ProgDev, t, TRUE)
    \/ MinDelta(ProgDev)
    \/ Tick

\* A call of the event programmer, once entered, runs on.
SpecAccept == InitAccept /\ [][NextAccept]_vars /\ WF_vars(MinDelta(ProgDev))

(***************************************************************************)
(* The registry on several processors.  Each processor runs one call at a  *)
(* time; a step is one statement of the call: taking or dropping           *)
(* clockevents_lock, one list operation with the notification that follows *)
(* it, one pass of a loop.  raw_spin_lock_irqsave waits until the lock is  *)
(* free; local_irq_save holds back nothing on another processor.           *)
(***************************************************************************)
MaxSmpCalls == 3

SmpReady(c) ==
    /\ pc = "run"
    /\ smp.frame[c].pc = "idle"
    /\ last.n < MaxSmpCalls

At(c, op, at) ==
    /\ pc = "run"
    /\ smp.frame[c].op = op
    /\ smp.frame[c].pc = at

\* The processor's call moves on to statement at.
Goto(c, at) == [smp EXCEPT !.frame[c].pc = at]

\* The processor's call returns.
Return(c) == [smp EXCEPT !.frame[c] = IdleFrame]

\* A list operation's result: the lists, or the oops of a wild pointer.
ListStep(L, c, at) ==
    IF L.ok THEN /\ list' = Unl(L)
                 /\ smp' = Goto(c, at)
                 /\ UNCHANGED pc
    ELSE /\ pc' = "oops"
         /\ UNCHANGED <<list, smp>>

\* The device is on no list and no call in flight has it in hand.
Unlinked(d) ==
    /\ list.next[d] \notin Nodes
    /\ \A c \in Cpus : d \notin {smp.frame[c].d, smp.frame[c].new}

\* clockevents_register_device(dev) up to the lock.
SmpRegister(c, d) ==
    /\ SmpReady(c)
    /\ Unlinked(d)
    /\ last' = Call("register", d, NoDev, c, 0, FALSE, 0)
    /\ IF dev[d].mode # "UNUSED"
       THEN /\ pc' = "BUG"
            /\ UNCHANGED <<dev, smp>>
       ELSE /\ dev' = [dev EXCEPT ![d] = DefaultCpumask(@, c)]
            /\ smp' = [smp EXCEPT !.frame[c] =
                          Frame("register", "lock", d, NoDev, "-", 0,
                                "NULL", "NULL")]
            /\ UNCHANGED pc
    /\ UNCHANGED <<list, broadcast, hwfloor, adaptive, now, prog, notes, hw,
                   conv>>

\* raw_spin_lock_irqsave(&clockevents_lock, flags) of register and notify.
SmpLock(c) ==
    /\ \/ At(c, "register", "lock")
       \/ At(c, "notify", "lock")
    /\ smp.lock = Unlocked
    /\ smp' = [smp EXCEPT !.lock = {c},
                          !.frame[c].pc = IF @ = "lock" /\ smp.frame[c].op
                                              = "register"
                                           THEN "add" ELSE "chain"]
    /\ UNCHANGED <<dev, list, broadcast, hwfloor, adaptive, now, pc, prog,
                   last, notes, hw, conv>>

\* list_add(&dev->list, &clockevent_devices);
\* clockevents_do_notify(CLOCK_EVT_NOTIFY_ADD, dev);
SmpRegisterAdd(c) ==
    /\ At(c, "register", "add")
    /\ LET d  == smp.frame[c].d
           L1 == list_add(Lst(list), d, clockevent_devices)
       IN  /\ ListStep(L1, c, "drain")
           /\ notes' = IF L1.ok
                       THEN Append(notes, Note("ADD", d, 0, L1.prev[d]))
                       ELSE notes
    /\ UNCHANGED <<dev, broadcast, hwfloor, adaptive, now, prog, last, hw,
                   conv>>

\* while (!list_empty(&clockevents_released)) {
\*     dev = list_entry(clockevents_released.next, ...);
\*     list_del(&dev->list);
SmpDrainDel(c) ==
    /\ At(c, "register", "drain")
    /\ IF list_empty(Lst(list), clockevents_released)
       THEN /\ smp' = Goto(c, "unlock")
            /\ UNCHANGED <<list, pc>>
       ELSE LET d == list.next[clockevents_released]
            IN  IF d \notin Devs
                THEN /\ pc' = "oops"
                     /\ UNCHANGED <<list, smp>>
                ELSE LET L1 == list_del(Lst(list), d)
                     IN  IF L1.ok
                         THEN /\ list' = Unl(L1)
                              /\ smp' = [smp EXCEPT
                                            !.frame[c].pc = "drain_add",
                                            !.frame[c].pos = d]
                              /\ UNCHANGED pc
                         ELSE /\ pc' = "oops"
                              /\ UNCHANGED <<list, smp>>
    /\ UNCHANGED <<dev, broadcast, hwfloor, adaptive, now, prog, last, notes,
                   hw, conv>>

\*     list_add(&dev->list, &clockevent_devices);
\*     clockevents_do_notify(CLOCK_EVT_NOTIFY_ADD, dev);
\* }
SmpDrainAdd(c) ==
    /\ At(c, "register", "drain_add")
    /\ LET d  == smp.frame[c].pos
           L1 == list_add(Lst(list), d, clockevent_devices)
       IN  /\ ListStep(L1, c, "drain")
           /\ notes' = IF L1.ok
                       THEN Append(notes, Note("ADD", d, 0, L1.prev[d]))
                       ELSE notes
    /\ UNCHANGED <<dev, broadcast, hwfloor, adaptive, now, prog, last, hw,
                   conv>>

\* raw_spin_unlock_irqrestore(&clockevents_lock, flags) of register and
\* notify; the call returns.
SmpUnlock(c) ==
    /\ \/ At(c, "register", "unlock")
       \/ At(c, "notify", "unlock")
    /\ smp' = [Return(c) EXCEPT !.lock = Unlocked]
    /\ UNCHANGED <<dev, list, broadcast, hwfloor, adaptive, now, pc, prog,
                   last, notes, hw, conv>>

\* clockevents_exchange_device(old, new): local_irq_save(flags), and for an
\* old device clockevents_set_mode(old, CLOCK_EVT_MODE_UNUSED).
SmpExchange(c, old, new) ==
    /\ SmpReady(c)
    /\ old # NoDev => old \in Active(list)
    /\ \A c2 \in Cpus : {old, new} \cap {smp.frame[c2].d, smp.frame[c2].new}
                           \subseteq {NoDev}
    /\ last' = Call("exchange", old, new, c, 0, FALSE, 0)
    /\ IF old = NoDev
       THEN /\ smp' = [smp EXCEPT !.frame[c] =
                          Frame("exchange", "new", old, new, "-", 0,
                                "NULL", "NULL")]
            /\ UNCHANGED <<dev, hw>>
       ELSE /\ dev' = [dev EXCEPT ![old] = clockevents_set_mode(@, "UNUSED")]
            /\ hw' = hw \o SetModeCalls(dev[old], old, "UNUSED")
            /\ smp' = [smp EXCEPT !.frame[c] =
                          Frame("exchange", "del", old, new, "-", 0,
                                "NULL", "NULL")]
    /\ UNCHANGED <<list, broadcast, hwfloor, adaptive, now, pc, prog, notes,
                   conv>>

\* list_del(&old->list);
SmpExchangeDel(c) ==
    /\ At(c, "exchange", "del")
    /\ ListStep(list_del(Lst(list), smp.frame[c].d), c, "add")
    /\ UNCHANGED <<dev, broadcast, hwfloor, adaptive, now, prog, last, notes,
                   hw, conv>>

\* list_add(&old->list, &clockevents_released);
SmpExchangeAdd(c) ==
    /\ At(c, "exchange", "add")
    /\ ListStep(list_add(Lst(list), smp.frame[c].d, clockevents_released),
                c, "new")
    /\ UNCHANGED <<dev, broadcast, hwfloor, adaptive, now, prog, last, notes,
                   hw, conv>>

\* if (new) { BUG_ON(new->mode != CLOCK_EVT_MODE_UNUSED);
\*            clockevents_shutdown(new); }
\* local_irq_restore(flags);
SmpExchangeNew(c) ==
    /\ At(c, "exchange", "new")
    /\ LET new == smp.frame[c].new
       IN  IF new = NoDev
           THEN /\ smp' = Return(c)
                /\ UNCHANGED <<dev, hw, pc>>
           ELSE IF dev[new].mode # "UNUSED"
           THEN /\ pc' = "BUG"
                /\ UNCHANGED <<dev, hw, smp>>
           ELSE /\ dev' = [dev EXCEPT ![new] = clockevents_shutdown(@)]
                /\ hw' = hw \o SetModeCalls(dev[new], new, "SHUTDOWN")
                /\ smp' = Return(c)
                /\ UNCHANGED pc
    /\ UNCHANGED <<list, broadcast, hwfloor, adaptive, now, prog, last, notes,
                   conv>>

\* clockevents_notify(reason, arg) up to the lock.
SmpNotify(c, reason, cpu) ==
    /\ SmpReady(c)
    /\ last' = Call("notify_" \o reason, NoDev, NoDev, cpu, 0, FALSE, 0)
    /\ smp' = [smp EXCEPT !.frame[c] =
                  Frame("notify", "lock", NoDev, NoDev, reason, cpu,
                        "NULL", "NULL")]
    /\ UNCHANGED <<dev, list, broadcast, hwfloor, adaptive, now, pc, prog,
                   notes, hw, conv>>

\* clockevents_do_notify(reason, arg); switch (reason): for
\* CLOCK_EVT_NOTIFY_CPU_DEAD the first cursor of the loop over released.
SmpNotifyChain(c) ==
    /\ At(c, "notify", "chain")
    /\ LET f == smp.frame[c]
       IN  /\ notes' = Append(notes, Note(f.reason, NoDev, f.cpu, NoDev))
           /\ smp' = IF f.reason = "CPU_DEAD"
                     THEN [smp EXCEPT
                              !.frame[c].pc = "drop",
                              !.frame[c].pos =
                                  FirstPos(Lst(list), clockevents_released),
                              !.frame[c].tmp =
                                  FirstTmp(Lst(list), clockevents_released)]
                     ELSE Goto(c, "unlock")
    /\ UNCHANGED <<dev, list, broadcast, hwfloor, adaptive, now, pc, prog,
                   last, hw, conv>>

\* One pass of list_for_each_entry_safe(dev, tmp, head, list) has ended:
\* dev = tmp, tmp = the entry after it.
NextCursor(c, l) ==
    LET n == smp.frame[c].tmp
    IN  [smp EXCEPT !.frame[c].pos = n,
                    !.frame[c].tmp = IF n \in Nodes THEN l.next[n]
                                     ELSE "NULL"]

\* list_for_each_entry_safe(dev, tmp, &clockevents_released, list)
\*     list_del(&dev->list);
\* and, at its end, the first cursor of the loop over the active devices.
SmpDrop(c) ==
    /\ At(c, "notify", "drop")
    /\ LET pos == smp.frame[c].pos
       IN  IF pos = clockevents_released
           THEN /\ smp' = [smp EXCEPT
                              !.frame[c].pc = "prune",
                              !.frame[c].pos =
                                  FirstPos(Lst(list), clockevent_devices),
                              !.frame[c].tmp =
                                  FirstTmp(Lst(list), clockevent_devices)]
                /\ UNCHANGED <<list, pc>>
           ELSE LET L1 == IF pos \in Nodes THEN list_del(Lst(list), pos)
                          ELSE [Lst(list) EXCEPT !.ok = FALSE]
                IN  IF L1.ok /\ smp.frame[c].tmp \in Nodes
                    THEN /\ list' = Unl(L1)
                         /\ smp' = NextCursor(c, Unl(L1))
                         /\ UNCHANGED pc
                    ELSE /\ pc' = "oops"
                         /\ UNCHANGED <<list, smp>>
    /\ UNCHANGED <<dev, broadcast, hwfloor, adaptive, now, prog, last, notes,
                   hw, conv>>

\* list_for_each_entry_safe(dev, tmp, &clockevent_devices, list) {
\*     if (cpumask_test_cpu(cpu, dev->cpumask) && ... ) {
\*         BUG_ON(dev->mode != CLOCK_EVT_MODE_UNUSED);
\*         list_del(&dev->list); } }
SmpPrune(c) ==
    /\ At(c, "notify", "prune")
    /\ LET pos == smp.frame[c].pos
           cpu == smp.frame[c].cpu
       IN  IF pos = clockevent_devices
           THEN /\ smp' = Goto(c, "unlock")
                /\ UNCHANGED <<list, pc>>
           ELSE IF pos \notin Devs
           THEN /\ pc' = "oops"
                /\ UNCHANGED <<list, smp>>
           ELSE IF Prunable(pos, cpu) /\ dev[pos].mode # "UNUSED"
           THEN /\ pc' = "BUG"
                /\ UNCHANGED <<list, smp>>
           ELSE LET L1 == IF Prunable(pos, cpu)
                          THEN list_del(Lst(list), pos) ELSE Lst(list)
                IN  IF L1.ok /\ smp.frame[c].tmp \in Nodes
                    THEN /\ list' = Unl(L1)
                         /\ smp' = NextCursor(c, Unl(L1))
                         /\ UNCHANGED pc
                    ELSE /\ pc' = "oops"
                         /\ UNCHANGED <<list, smp>>
    /\ UNCHANGED <<dev, broadcast, hwfloor, adaptive, now, prog, last, notes,
                   hw, conv>>

\* "A" and "B" are registered, "A" serves processor 0 in oneshot mode, "B"
\* has been given processor 1 and is unused; "C" is new.
InitSmp ==
    /\ dev = [d \in Devs |->
                IF d = "A"
                THEN clockevents_set_mode(DriverDevice(d), "ONESHOT")
                ELSE IF d = "B" THEN DefaultCpumask(DriverDevice(d), 1)
                ELSE DriverDevice(d)]
    /\ list = Unl(list_add(list_add(Lst(FreshLists), "A", clockevent_devices),
                           "B", clockevent_devices))
    /\ broadcast = NoDev
    /\ hwfloor = [d \in Devs |-> HwFloor(0)]
    /\ adaptive = TRUE
    /\ now = 1
    /\ pc = "run"
    /\ prog = Idle
    /\ last = NoCall
    /\ notes = <<>>
    /\ hw = <<>>
    /\ conv = NoConv
    /\ smp = NoSmp

NextSmp ==
    \/ \E c \in Cpus, d \in Devs : SmpRegister(c, d)
    \/ \E c \in Cpus : SmpLock(c)
    \/ \E c \in Cpus : SmpRegisterAdd(c)
    \/ \E c \in Cpus : SmpDrainDel(c)
    \/ \E c \in Cpus : SmpDrainAdd(c)
    \/ \E c \in Cpus : SmpUnlock(c)
    \/ \E c \in Cpus, old \in Devs \cup {NoDev}, new \in Devs \cup {NoDev} :
          SmpExchange(c, old, new)
    \/ \E c \in Cpus : SmpExchangeDel(c)
    \/ \E c \in Cpus : SmpExchangeAdd(c)
    \/ \E c \in Cpus : SmpExchangeNew(c)
    \/ \E c \in Cpus, reason \in NotifyReasons, cpu \in Cpus :
          SmpNotify(c, reason, cpu)
    \/ \E c \in Cpus : SmpNotifyChain(c)
    \/ \E c \in Cpus : SmpDrop(c)
    \/ \E c \in Cpus : SmpPrune(c)

SpecSmp == InitSmp /\ [][NextSmp]_vars

(***************************************************************************)
(* The conversion on its own: cev_delta2ns of two latch values under one   *)
(* scale factor, and the ticks the programmer computes back from the       *)
(* nanoseconds of the second.                                              *)
(***************************************************************************)
LatchBases == {0, 6000, (Word \div 4) - 2, (Word \div 2) - 2,
               MaxWord - LatchSpan}

LatchSamples == {b + k : b \in LatchBases, k \in 0 .. LatchSpan}

InitMath ==
    /\ \E l1 \in LatchSamples, l2 \in LatchSamples, m \in 1 .. MathMaxMult,
          s \in 0 .. MathMaxShift, ismax \in BOOLEAN :
          /\ l1 <= l2
          /\ conv = [pc |-> "in", latch1 |-> l1, latch2 |-> l2, mult |-> m,
                     shift |-> s, ismax |-> ismax, ns1 |-> 0, ns2 |-> 0,
                     ticks |-> 0]
    /\ dev = [d \in Devs |-> DriverDevice(d)]
    /\ list = FreshLists
    /\ broadcast = NoDev
    /\ hwfloor = [d \in Devs |-> HwFloor(0)]
    /\ adaptive = TRUE
    /\ now = 1
    /\ pc = "run"
    /\ prog = Idle
    /\ last = NoCall
    /\ notes = <<>>
    /\ hw = <<>>
    /\ smp = NoSmp

Convert ==
    /\ conv.pc = "in"
    /\ LET ns1 == cev_delta2ns(conv.latch1, conv.mult, conv.shift, conv.ismax)
           ns2 == cev_delta2ns(conv.latch2, conv.mult, conv.shift, conv.ismax)
       IN  conv' = [conv EXCEPT !.pc = "out", !.ns1 = ns1, !.ns2 = ns2,
                       !.ticks = NsToTicks(ns2, conv.mult, conv.shift)]
    /\ UNCHANGED <<dev, list, broadcast, hwfloor, adaptive, now, pc, prog,
                   last, notes, hw, smp>>

NextMath == Convert

SpecMath == InitMath /\ [][NextMath]_vars

(***************************************************************************)
(* Claims about the conversion, checked under SpecMath.                    *)
(***************************************************************************)
Converted == conv.pc = "out"

\* L << shift fits the word and leaves room for the rounding term mult - 1,
\* stated on the integers.
RoundingFits(latch, mult, shift) == latch * (2 ^ shift) + mult - 1 < MaxWord

\* C9: for every latch value and every scale factor with mult > 0, for
\* is_max false and true, the nanoseconds are at least 1000 and do not
\* decrease when the latch value grows.
C9_FloorAndMonotone ==
    Converted =>
        /\ conv.ns1 >= NOISE_FLOOR_NS
        /\ conv.ns2 >= NOISE_FLOOR_NS
        /\ conv.ns1 <= conv.ns2

\* C10 as stated: for every min_delta_ticks value L and every scale factor
\* with mult > 0, converting L to nanoseconds (is_max false) and back with
\* (ns * mult) >> shift gives at least L.
C10_RoundTripAlways ==
    (Converted /\ ~conv.ismax) => conv.ticks >= conv.latch2

\* C10 as amended: the round trip gives at least L whenever (L << shift) +
\* mult - 1 stays below the largest word, that is whenever the shift does
\* not overflow and the rounding term is added.
C10_RoundTripWhenRounded ==
    (Converted /\ ~conv.ismax
       /\ RoundingFits(conv.latch2, conv.mult, conv.shift))
    => conv.ticks >= conv.latch2

\* C10's case: a latch above the noise floor that the scale factor does not
\* divide, so that only the rounding term brings the round trip back to L.
C10_Witness ==
    /\ Converted
    /\ ~conv.ismax
    /\ RoundingFits(conv.latch2, conv.mult, conv.shift)
    /\ conv.ns2 > NOISE_FLOOR_NS
    /\ (conv.latch2 * (2 ^ conv.shift)) % conv.mult # 0
    /\ conv.ticks = conv.latch2

(***************************************************************************)
(* Claims about the event programmer.                                      *)
(***************************************************************************)
InLoop == prog.pc = "min_delta"

Returned == prog.pc = "idle"

\* The step enters clockevents_program_event.
ProgramCalled == last'.n = last.n + 1 /\ last'.op = "program"

\* min_delta_ns after one growth step, on the integers.
GrownBy(ns) ==
    LET g == IF ns < 5000 THEN 5000 ELSE ns + (ns \div 2)
    IN  IF g > NSEC_PER_SEC \div HZ THEN NSEC_PER_SEC \div HZ ELSE g

\* C1, the counts: while the forced call runs against hardware that always
\* fails, min_delta_ns has been raised once per three failed attempts; when
\* it has returned, it returned the TIMING failure after a last group of
\* three failures that found min_delta_ns at or above the ceiling.
C1_Counts ==
    (last.op = "program" /\ last.force /\ adaptive /\ hwfloor[last.d].never
       /\ dev[last.d].mode # "SHUTDOWN" /\ "KTIME" \notin dev[last.d].features
       /\ last.t >= 0)
    => /\ prog.attempts <= 3 * (prog.grown + 1)
       /\ InLoop => /\ prog.grown = prog.attempts \div 3
                    /\ prog.i = prog.attempts % 3
       /\ Returned => /\ last.ret = 0 - ETIME
                      /\ prog.attempts = 3 * (prog.grown + 1)
                      /\ dev[last.d].min_delta_ns >= NSEC_PER_SEC \div HZ

\* C1, the steps: min_delta_ns changes only at the third failure of a group,
\* to 5000 ns if below, otherwise by half its value, capped at the ceiling;
\* and the call returns only at a third failure with min_delta_ns at or
\* above the ceiling.
C1_Steps ==
    (InLoop /\ adaptive /\ hwfloor[prog.d].never
       /\ dev[prog.d].mode # "SHUTDOWN")
    => LET ns  == dev[prog.d].min_delta_ns
           ns1 == dev'[prog.d].min_delta_ns
       IN  /\ prog'.attempts # prog.attempts =>
                 /\ prog'.attempts = prog.attempts + 1
                 /\ (prog.i < 2) => (ns1 = ns /\ prog'.pc = "min_delta")
                 /\ (prog.i = 2 /\ ns < NSEC_PER_SEC \div HZ) =>
                        (ns1 = GrownBy(ns) /\ prog'.pc = "min_delta")
                 /\ (prog.i = 2 /\ ns >= NSEC_PER_SEC \div HZ) =>
                        (ns1 = ns /\ prog'.pc = "idle")
           /\ prog'.attempts = prog.attempts => ns1 = ns

\* C1: under the adaptive policy a forced call for a target just past, on a
\* device that is not shut down, arms relative deltas and whose
\* set_next_event always fails, ends, returning the TIMING failure;
\* min_delta_ns is raised exactly once per three consecutive failures, to
\* 5000 ns or by half, capped at NSEC_PER_SEC/HZ, and the call gives up only
\* when a growth step is due at or above the ceiling.
C1_BackoffTerminates ==
    /\ []C1_Counts
    /\ [][C1_Steps]_vars
    /\ (InLoop ~> Returned)

\* C1's case: the call has given up after several growth steps.
C1_Witness ==
    /\ last.op = "program" /\ last.force /\ adaptive /\ hwfloor[last.d].never
    /\ Returned
    /\ last.ret = 0 - ETIME
    /\ prog.grown >= 3
    /\ prog.attempts = 3 * (prog.grown + 1)
    /\ dev[last.d].min_delta_ns = NSEC_PER_SEC \div HZ

\* An unforced call for the time just past has returned.
PastUnforced ==
    /\ last.op = "program"
    /\ ~last.force
    /\ last.t = now - 1
    /\ Returned

\* C2 as stated: for every device, in every mode and with every combination
\* of capability flags, program(d, now - 1ns, force = false) returns the
\* TIMING failure.
C2_PastUnforcedFailsAlways == PastUnforced => last.ret = 0 - ETIME

\* C2 as amended: for every device that is not in SHUTDOWN mode and does not
\* declare absolute-time arming, program(d, now - 1ns, force = false)
\* returns the TIMING failure.
C2_PastUnforcedFails ==
    (PastUnforced /\ dev[last.d].mode # "SHUTDOWN"
       /\ "KTIME" \notin dev[last.d].features)
    => last.ret = 0 - ETIME

\* C2's case: the call was made on a oneshot device in ONESHOT mode.
C2_Witness ==
    /\ PastUnforced
    /\ dev[last.d].mode = "ONESHOT"
    /\ dev[last.d].features = {"ONESHOT"}
    /\ last.ret = 0 - ETIME
    /\ hw = <<>>

\* C3: a program call with a target >= 0 on a device in SHUTDOWN mode
\* returns success at once, invokes neither set_next_event nor
\* set_next_ktime and leaves the mode alone, so the same holds of every
\* later call until set_mode changes the mode.
C3_ShutdownProgramsNothing ==
    [][(ProgramCalled /\ dev[last'.d].mode = "SHUTDOWN" /\ last'.t >= 0)
       => /\ prog'.pc = "idle"
          /\ last'.ret = 0
          /\ hw' = <<>>
          /\ dev'[last'.d].mode = "SHUTDOWN"]_vars

\* C3's case: shutdown, then an unforced call for a future target on a
\* device whose hardware would have been armed.
C3_Witness ==
    /\ last.op = "program"
    /\ last.n >= 2
    /\ ~last.force
    /\ last.t > now
    /\ dev[last.d].mode = "SHUTDOWN"
    /\ "KTIME" \notin dev[last.d].features
    /\ dev[last.d].next_event = last.t
    /\ last.ret = 0
    /\ hw = <<>>

\* C8: in every reachable state of a configured oneshot-capable device,
\* min_delta_ns <= max_delta_ns: after config and after every program call,
\* the forced ones that run the backoff included.
C8_MinLeMax ==
    \A d \in Devs :
        ("ONESHOT" \in dev[d].features /\ dev[d].min_delta_ticks > 0
           /\ dev[d].min_delta_ticks <= dev[d].max_delta_ticks)
        => dev[d].min_delta_ns <= dev[d].max_delta_ns

(***************************************************************************)
(* Claims about the registry.                                              *)
(***************************************************************************)
\* Both lists are proper rings and share no device.
ListsProper(l) ==
    /\ ProperList(l, clockevent_devices)
    /\ ProperList(l, clockevents_released)
    /\ Active(l) \cap Released(l) = {}

\* The step is a call of op that returns.
Returns(ops) == last'.n = last.n + 1 /\ last'.op \in ops /\ pc' = "run"

RegisterOps == {"register", "config_and_register"}

\* The number of notifications in ns that are ADD for device d.
AddsFor(ns, d) ==
    Cardinality({i \in 1 .. Len(ns) : ns[i].reason = "ADD" /\ ns[i].d = d})

\* C4: after exchange(old = X, new = Y), Y in mode UNUSED and X in the
\* active list, X.mode = UNUSED, X is in the released list and no longer in
\* the active list, Y.mode = SHUTDOWN, Y.next_event = KTIME_MAX, and no
\* notification was sent.
C4_ExchangePostconditions ==
    [][(Returns({"exchange"}) /\ last'.d # NoDev /\ last'.new # NoDev
          /\ last'.d # last'.new
          /\ last'.d \in Active(list) /\ dev[last'.new].mode = "UNUSED")
       => LET X == last'.d
              Y == last'.new
          IN  /\ dev'[X].mode = "UNUSED"
              /\ X \in Released(list')
              /\ X \notin Active(list')
              /\ dev'[Y].mode = "SHUTDOWN"
              /\ dev'[Y].next_event = KTIME_MAX
              /\ notes' = <<>>]_vars

\* C5: register(A) with a non-empty released backlog returns with every
\* backlog device in the active list, the backlog empty, A in the active
\* list, and exactly one ADD notification for A followed by exactly one for
\* each formerly released device, each sent once the device is linked
\* behind the head of the active list.
C5_RegisterDrainsBacklog ==
    [][(Returns(RegisterOps) /\ Released(list) # {})
       => LET A    == last'.d
              back == Released(list)
          IN  /\ Released(list') = {}
              /\ list_empty(list', clockevents_released)
              /\ back \cup {A} \subseteq Active(list')
              /\ Len(notes') >= 1
              /\ notes'[1].reason = "ADD" /\ notes'[1].d = A
              /\ \A i \in 2 .. Len(notes') :
                    notes'[i].reason = "ADD" /\ notes'[i].d \in back
              /\ \A i \in 1 .. Len(notes') :
                    notes'[i].at = clockevent_devices
              /\ \A b \in back \ {A} : AddsFor(notes', b) = 1
              /\ AddsFor(notes', A) = IF A \in back THEN 2 ELSE 1]_vars

\* C6: after notify(CPU_DEAD, cpu) the active list is the previous one
\* without exactly the devices whose affinity is {cpu} and which are not the
\* broadcast device; the released backlog is empty, and none of its former
\* members was notified or moved to the active list.
C6_CpuDeadFrame ==
    [][Returns({"notify_CPU_DEAD"})
       => LET cpu  == last'.cpu
              gone == {d \in Active(list) :
                          dev[d].cpumask = {cpu} /\ broadcast # d}
          IN  /\ Active(list') = Active(list) \ gone
              /\ Entries(list', clockevent_devices) =
                    SelectSeq(Entries(list, clockevent_devices),
                              LAMBDA d : d \notin gone)
              /\ Released(list') = {}
              /\ list_empty(list', clockevents_released)
              /\ notes' = <<Note("CPU_DEAD", NoDev, cpu, NoDev)>>]_vars

\* C7: after any sequence of register, config_and_register, exchange and
\* notify calls that hits no fatal assertion, no device is in both lists and
\* no device appears more than once in either, also when register is called
\* on a device that is already active or sits in the released backlog.
C7_ListsDisjointNoDuplicates == (pc = "run") => ListsProper(list)

\* C5's case: a registration has flushed a backlog of two devices.
C5_Witness ==
    /\ last.op = "register"
    /\ pc = "run"
    /\ Len(notes) = 3
    /\ notes[1].d = last.d
    /\ {notes[2].d, notes[3].d} = Devs \ {last.d}
    /\ Active(list) = Devs
    /\ Released(list) = {}

\* C6's case: the dead processor's own device is gone, the broadcast device
\* with the same affinity has stayed, and a device of every processor that
\* sat in the released backlog has been dropped.
C6_Witness ==
    /\ last.op = "notify_CPU_DEAD"
    /\ pc = "run"
    /\ broadcast = "A"
    /\ dev["A"].cpumask = {last.cpu}
    /\ dev["B"].cpumask = {last.cpu}
    /\ Active(list) = {"A"}
    /\ list.next["B"] = "LIST_POISON1"
    /\ list.next["C"] = "LIST_POISON1"
    /\ Released(list) = {}

(***************************************************************************)
(* Claims about the mode state machine.                                    *)
(***************************************************************************)
\* The hardware callbacks made by the step.
NewCalls ==
    IF last'.n # last.n THEN hw' ELSE SubSeq(hw', Len(hw) + 1, Len(hw'))

\* The set_mode callbacks of device d among the calls cs.
ModeCalls(cs, d) == SelectSeq(cs, LAMBDA c : c.fn = "set_mode" /\ c.d = d)

\* Starting in mode m, every callback of cs announces a mode other than the
\* current one, and the last mode announced is target.
RECURSIVE TransitionsFrom(_, _, _)
TransitionsFrom(m, cs, target) ==
    IF cs = <<>> THEN m = target
    ELSE Head(cs).mode # m /\ TransitionsFrom(Head(cs).mode, Tail(cs), target)

\* C11: across set_mode, shutdown, exchange, register, program and
\* update_frequency calls a device's mode changes only in set_mode (called
\* directly, by shutdown or by exchange), each change to mode m comes with
\* exactly one set_mode callback with argument m, and a set_mode call that
\* leaves the mode as it is makes no callback and changes no device field.
C11_ModeOnlyBySetMode ==
    [][\A d \in Devs :
          LET cs == ModeCalls(NewCalls, d)
          IN  /\ TransitionsFrom(dev[d].mode, cs, dev'[d].mode)
              /\ cs # <<>> =>
                    /\ last'.n = last.n + 1
                    /\ last'.op \in {"set_mode", "shutdown", "exchange"}
                    /\ d \in {last'.d, last'.new}
              /\ (last'.n = last.n + 1 /\ last'.op = "set_mode"
                    /\ last'.d = d /\ dev'[d].mode = dev[d].mode)
                 => (hw' = <<>> /\ dev' = dev)]_vars

\* C11's case: an exchange of a registered ONESHOT device for itself has
\* taken it through UNUSED to SHUTDOWN, with one callback for each change.
C11_Witness ==
    /\ last.op = "exchange"
    /\ last.d = ProgDev /\ last.new = ProgDev
    /\ pc = "run"
    /\ dev[ProgDev].mode = "SHUTDOWN"
    /\ hw = <<HwCall("set_mode", ProgDev, "UNUSED", 0),
              HwCall("set_mode", ProgDev, "SHUTDOWN", 0)>>

(***************************************************************************)
(* Claims about the retries counter and the recorded expiry.               *)
(***************************************************************************)
\* The step is a pass of the minimum-delta loop.
LoopPass == last'.n = last.n /\ prog.pc = "min_delta" /\ prog' # prog

\* C12: every set_next_event made from the minimum-delta path, under the
\* single-attempt and under the adaptive policy, comes with exactly one
\* increment of retries, and the first, non-fallback arm attempt of program
\* leaves retries alone.
C12_RetriesCountAttempts ==
    [][/\ ProgramCalled => dev'[last'.d].retries = dev[last'.d].retries
       /\ LoopPass =>
             LET d == prog.d
             IN  /\ dev'[d].retries - dev[d].retries = Len(NewCalls)
                 /\ prog'.attempts - prog.attempts = Len(NewCalls)
                 /\ Len(NewCalls) <= 1
                 /\ \A i \in 1 .. Len(NewCalls) :
                       NewCalls[i].fn = "set_next_event" /\ NewCalls[i].d = d
                 /\ \A e \in Devs \ {d} : dev'[e].retries = dev[e].retries]_vars

\* C12's case: a forced call whose first attempt failed has returned after
\* several attempts in the adaptive fallback, each of them counted.
C12_Witness ==
    /\ last.op = "program" /\ last.force /\ adaptive
    /\ Returned
    /\ last.ret = 0
    /\ prog.attempts >= 2
    /\ Len(hw) = prog.attempts + 1
    /\ dev[last.d].retries = prog.attempts

(***************************************************************************)
(* Claims about the fatal assertions.                                      *)
(***************************************************************************)
\* The step is a call of one of ops, returning or not.
Calls(ops) == last'.n = last.n + 1 /\ last'.op \in ops

\* The call has stopped at its BUG_ON and nothing else has happened.
FatalUntouched ==
    /\ pc' = "BUG"
    /\ list' = list
    /\ \A e \in Devs : dev'[e].mode = dev[e].mode
    /\ notes' = <<>>
    /\ hw' = <<>>

\* register is called on a device that is not UNUSED.
RegisterViolation == Calls(RegisterOps) /\ dev[last'.d].mode # "UNUSED"

\* exchange is called with a new device that is not UNUSED.
ExchangeViolation ==
    Calls({"exchange"}) /\ last'.new # NoDev /\ dev[last'.new].mode # "UNUSED"

\* C13 as stated: register(d) with d.mode # UNUSED and exchange(old, new)
\* with new.mode # UNUSED each reach the fatal error state without the call
\* having changed either list or any device's mode, or having sent any
\* notification or hardware callback.
C13_FatalWithoutChanges ==
    [][(RegisterViolation \/ ExchangeViolation) => FatalUntouched]_vars

\* C13 as amended: register(d) with d.mode # UNUSED reaches the fatal error
\* state with nothing changed, and so does exchange(no old device, new) with
\* new.mode # UNUSED; exchange(old, new) with new.mode # UNUSED, old another
\* device that is linked in a list, reaches the fatal error state after old
\* has been forced to UNUSED, with its callback if its mode changed, and
\* moved to the head of the released list, with no other device changed and
\* no notification sent.
C13_FatalAfterOldOnly ==
    [][/\ RegisterViolation => FatalUntouched
       /\ (ExchangeViolation /\ last'.d = NoDev) => FatalUntouched
       /\ (ExchangeViolation /\ last'.d # NoDev /\ last'.d # last'.new
             /\ list.next[last'.d] \in Nodes /\ list.prev[last'.d] \in Nodes)
          => LET old == last'.d
             IN  /\ pc' = "BUG"
                 /\ dev'[old] = [dev[old] EXCEPT !.mode = "UNUSED"]
                 /\ hw' = IF dev[old].mode = "UNUSED" THEN <<>>
                          ELSE <<HwCall("set_mode", old, "UNUSED", 0)>>
                 /\ list'.next[clockevents_released] = old
                 /\ list'.prev[old] = clockevents_released
                 /\ \A e \in Devs \ {old} : dev'[e] = dev[e]
                 /\ notes' = <<>>]_vars

\* C13's case: an exchange into a ONESHOT device has stopped at its BUG_ON
\* after switching the old, active device to UNUSED and releasing it.
C13_Witness ==
    /\ pc = "BUG"
    /\ last.op = "exchange"
    /\ last.d # NoDev /\ last.new # NoDev /\ last.d # last.new
    /\ dev[last.new].mode = "ONESHOT"
    /\ dev[last.d].mode = "UNUSED"
    /\ hw = <<HwCall("set_mode", last.d, "UNUSED", 0)>>
    /\ Released(list) = {last.d}
    /\ Active(list) = {}

\* A program call with a target >= 0 has returned failure.
ProgramFailed ==
    /\ last.op = "program"
    /\ last.t >= 0
    /\ Returned
    /\ last.ret # 0

\* C15 as stated: program(d, T, force) with T >= 0 records next_event = T,
\* and whenever such a call returns failure next_event still equals T, for
\* non-forced failures and for forced calls that fail after the
\* minimum-delta fallback.
C15_FailureKeepsTarget ==
    ProgramFailed => dev[last.d].next_event = last.t

\* C15 as amended: program(d, T, force) with T >= 0 records next_event = T
\* on entry; a call that returns failure without having entered the
\* minimum-delta fallback returns with next_event = T; a forced call that
\* fails in the fallback returns with next_event = KTIME_MAX under the
\* adaptive policy and with next_event = now + min_delta_ns under the
\* single-attempt policy.
C15_FailureKeepsTargetOutsideFallback ==
    /\ [][(ProgramCalled /\ last'.t >= 0)
          => dev'[last'.d].next_event = last'.t]_vars
    /\ [](ProgramFailed =>
            LET r == dev[last.d]
            IN  /\ prog.attempts = 0 => r.next_event = last.t
                /\ (prog.attempts > 0 /\ adaptive)
                      => r.next_event = KTIME_MAX
                /\ (prog.attempts > 0 /\ ~adaptive)
                      => r.next_event = now + ToS64(r.min_delta_ns))

\* C15's case: an unforced call for a future target has failed at the
\* hardware and the target is still recorded.
C15_Witness ==
    /\ ProgramFailed
    /\ ~last.force
    /\ last.t > now
    /\ "KTIME" \notin dev[last.d].features
    /\ Len(hw) = 1
    /\ dev[last.d].next_event = last.t

(***************************************************************************)
(* Claims about the relative path of the event programmer.                 *)
(***************************************************************************)
\* The step enters program for a target ahead of now and arms the hardware
\* with a relative tick count.
ArmsRelative ==
    /\ ProgramCalled
    /\ last'.t > now
    /\ Len(hw') = 1
    /\ hw'[1].fn = "set_next_event"

\* C16: whenever program calls set_next_event on the relative path with a
\* positive delta, the tick count passed is (d * mult) >> shift for a
\* nanosecond delta d with min_delta_ns <= d <= max_delta_ns, whatever
\* min_delta_ns and max_delta_ns the device has reached.
C16_ArmedDeltaInRange ==
    [][ArmsRelative =>
          LET r == dev[last'.d]
          IN  \E d \in {last'.t - now, r.min_delta_ns, r.max_delta_ns} :
                 /\ r.min_delta_ns <= d
                 /\ d <= r.max_delta_ns
                 /\ hw'[1].val = NsToTicks(d, r.mult, r.shift)]_vars

(***************************************************************************)
(* Claims about the scale factor.                                          *)
(***************************************************************************)
\* C17: in every reachable state mode = ONESHOT implies mult # 0:
\* set_mode(d, ONESHOT) leaves mult = 1 when mult was 0 on entry, and no
\* later program, update_frequency or conversion sets mult back to 0 while
\* the device stays in ONESHOT.
C17_OneshotHasMult ==
    /\ [](\A d \in Devs : dev[d].mode = "ONESHOT" => dev[d].mult # 0)
    /\ [][\A d \in Devs :
             /\ (dev[d].mode # "ONESHOT" /\ dev'[d].mode = "ONESHOT"
                   /\ dev[d].mult = 0) => dev'[d].mult = 1
             /\ (dev[d].mode = "ONESHOT" /\ dev'[d].mode = "ONESHOT")
                   => dev'[d].mult # 0]_vars

\* C17's case: a device that was never configured has been put in ONESHOT
\* mode and its zero mult repaired.
C17_Witness ==
    /\ last.op = "set_mode"
    /\ dev[last.d].mode = "ONESHOT"
    /\ dev[last.d].min_delta_ticks = 0
    /\ dev[last.d].max_delta_ns = 0
    /\ dev[last.d].mult = 1
    /\ hw = <<HwCall("set_mode", last.d, "ONESHOT", 0)>>

(***************************************************************************)
(* Claims about absolute-time arming and about update_freq.                *)
(***************************************************************************)
\* C18: for a device that declares absolute-time arming and is not in
\* SHUTDOWN mode, program(d, T, force) with T >= 0 calls set_next_ktime(T)
\* exactly once and returns its result, for past and future T and for
\* either value of force; it never calls set_next_event, never enters the
\* minimum-delta fallback, and leaves retries and min_delta_ns unchanged.
C18_KtimeDelegates ==
    [][(ProgramCalled /\ last'.t >= 0
          /\ "KTIME" \in dev[last'.d].features
          /\ dev[last'.d].mode # "SHUTDOWN")
       => LET d == last'.d
          IN  /\ hw' = <<HwCall("set_next_ktime", d, "-", last'.t)>>
              /\ last'.ret \in SetNextKtimeResults
              /\ prog'.pc = "idle"
              /\ prog'.attempts = 0
              /\ dev'[d] = [dev[d] EXCEPT !.next_event = last'.t]]_vars

\* C18's case: a forced call for a past target on an absolute-time device
\* has failed at set_next_ktime and returned the failure without a retry.
C18_Witness ==
    /\ last.op = "program"
    /\ last.force
    /\ last.t >= 0 /\ last.t < now
    /\ "KTIME" \in dev[last.d].features
    /\ dev[last.d].mode = "ONESHOT"
    /\ hw = <<HwCall("set_next_ktime", last.d, "-", last.t)>>
    /\ last.ret = 0 - ETIME
    /\ Returned
    /\ dev[last.d].retries = 0

\* The step is a call of clockevents_update_freq.
UpdateFreqCalled == last'.n = last.n + 1 /\ last'.op = "update_freq"

\* C19: update_frequency on a device whose mode is not ONESHOT returns
\* success without calling set_next_event or set_next_ktime and without
\* changing next_event or retries; on a device in ONESHOT mode it performs
\* exactly one program(d, d.next_event, force = false) under the recomputed
\* scale factor and bounds and returns its result, never entering the
\* minimum-delta fallback.
C19_UpdateFreqReprograms ==
    [][UpdateFreqCalled =>
          LET d == last'.d
              T == dev[d].next_event
              r == dev'[d]
          IN  /\ prog'.pc = "idle"
              /\ r.retries = dev[d].retries
              /\ r.next_event = T
              /\ r.mode = dev[d].mode
              /\ "ONESHOT" \in r.features =>
                    /\ r.min_delta_ns = cev_delta2ns(r.min_delta_ticks, r.mult,
                                                     r.shift, FALSE)
                    /\ r.max_delta_ns = cev_delta2ns(r.max_delta_ticks, r.mult,
                                                     r.shift, TRUE)
              /\ dev[d].mode # "ONESHOT" => (last'.ret = 0 /\ hw' = <<>>)
              /\ dev[d].mode = "ONESHOT" =>
                    IF T < 0 THEN last'.ret = 0 - ETIME /\ hw' = <<>>
                    ELSE IF "KTIME" \in r.features
                    THEN /\ hw' = <<HwCall("set_next_ktime", d, "-", T)>>
                         /\ last'.ret \in SetNextKtimeResults
                    ELSE IF T - now <= 0
                    THEN last'.ret = 0 - ETIME /\ hw' = <<>>
                    ELSE /\ hw' = <<HwCall("set_next_event", d, "-",
                                     NsToTicks(ClampDelta(r, T - now),
                                               r.mult, r.shift))>>
                         /\ last'.ret \in {0, 0 - ETIME}]_vars

\* C19's case: a ONESHOT device programmed for a future target has been
\* given a new frequency and rearmed once under the new scale factor.
C19_Witness ==
    /\ last.op = "update_freq"
    /\ dev[last.d].mode = "ONESHOT"
    /\ "ONESHOT" \in dev[last.d].features
    /\ "KTIME" \notin dev[last.d].features
    /\ dev[last.d].next_event > now
    /\ dev[last.d].mult = MaxMult
    /\ Len(hw) = 1
    /\ hw[1].fn = "set_next_event"
    /\ hw[1].val = NsToTicks(dev[last.d].min_delta_ns, MaxMult, 0)
    /\ dev[last.d].retries = 0

(***************************************************************************)
(* Claims about the backoff against accepting hardware.                    *)
(***************************************************************************)
\* set_next_event of d arms every tick count of a delta of at least
\* NSEC_PER_SEC/HZ, so of some floor F <= NSEC_PER_SEC/HZ.
Accepting(d) ==
    /\ ~hwfloor[d].never
    /\ hwfloor[d].floor <= CeilingTicks(dev[d])

\* A forced call with a target >= 0 under the adaptive policy on a device
\* that is not shut down, arms relative deltas and has accepting hardware.
ForcedOnAccepting ==
    /\ last.op = "program" /\ last.force /\ last.t >= 0
    /\ adaptive
    /\ dev[last.d].mode # "SHUTDOWN"
    /\ "KTIME" \notin dev[last.d].features
    /\ Accepting(last.d)

\* C20: under the adaptive policy, if set_next_event accepts every tick
\* count of a delta of at least F nanoseconds for some F <= NSEC_PER_SEC/HZ,
\* every program(d, T, force = true) with T >= 0 on a device that is not
\* shut down and arms relative deltas eventually returns, and returns
\* success; no step of it takes min_delta_ns above the larger of its value
\* before and NSEC_PER_SEC/HZ, and the attempts at the ceiling are made
\* before the call could give up.
C20_AcceptingNeverGivesUp ==
    /\ []((ForcedOnAccepting /\ Returned) => last.ret = 0)
    /\ [][(ForcedOnAccepting /\ InLoop)
          => /\ dev'[prog.d].min_delta_ns
                   <= Max(dev[prog.d].min_delta_ns, NSEC_PER_SEC \div HZ)
             /\ prog'.pc = "idle" => last'.ret = 0]_vars
    /\ ((ForcedOnAccepting /\ InLoop) ~> Returned)

\* C20's case: hardware that arms nothing below the tick count of the
\* ceiling has failed every attempt on the way up, and the first attempt at
\* the ceiling has succeeded.
C20_Witness ==
    /\ ForcedOnAccepting
    /\ Returned
    /\ last.ret = 0
    /\ hwfloor[last.d].floor = CeilingTicks(dev[last.d])
    /\ hwfloor[last.d].floor > 0
    /\ dev[last.d].min_delta_ns = NSEC_PER_SEC \div HZ
    /\ prog.grown >= 3
    /\ prog.attempts = 3 * prog.grown + 1

(***************************************************************************)
(* Claims about the registry lock.                                         *)
(***************************************************************************)
\* Processor c takes a step of its call that changes a list.
ListChangeBy(c) ==
    /\ list' # list
    /\ smp'.frame[c] # smp.frame[c]

\* Processor c is inside register's backlog drain or one of the two loops
\* of the processor-dead case.
InListLoop(c) == smp.frame[c].pc \in {"drain", "drain_add", "drop", "prune"}

\* C14: with register, exchange and notify running on different
\* processors, every step that inserts into or removes from the active or
\* the released list is taken by a processor that holds clockevents_lock,
\* and exchange's list_del and list_add are never taken while another
\* processor is inside register's backlog drain or the processor-dead
\* loops.
C14_ListChangesUnderLock ==
    [][\A c \in Cpus :
          ListChangeBy(c)
          => /\ smp.lock = {c}
             /\ smp.frame[c].op = "exchange"
                => \A c2 \in Cpus \ {c} : ~InListLoop(c2)]_vars

====
